---- MODULE Spec2Model ----
(***************************************************************************)
(* Model of bcdl's download engine (internal/download.go) and its history  *)
(* store (internal/history.go): Downloader.Download drives the pagination  *)
(* loop, three worker goroutines per step run downloadJobs with a          *)
(* per-attempt deadline and the timedOut retry rule, and History keeps the *)
(* fingerprints of finished downloads.                                     *)
(*                                                                         *)
(* Time is abstracted: the deadline of an attempt (context.WithTimeout)    *)
(* may fire at any moment while its context is live.  Durations are whole  *)
(* minutes.  Strings are sequences: titles and file types of characters,   *)
(* digests and the lines of the backing file of bytes (0..255); the MD5     *)
(* digests are the actual digests of the strings the model uses.  The       *)
(* backing file is the bag of its lines (the order of the lines has no      *)
(* effect on the set a start-up loads).  An attempt goroutine is followed   *)
(* until its worker has left the select of that attempt; what it does       *)
(* afterwards reaches neither channel.                                      *)
(***************************************************************************)
EXTENDS Integers, Sequences, FiniteSets, Bags, TLC

\* ---------------------------------------------------------------- bounds
\* longest list of entries the page driver returns in one step
MaxEntries == 2
\* longest title whose digest input is computed in FpSpec
MaxTitleLen == 2
\* largest number of pagination steps the page driver reports
MaxScroll == 2
\* most attempts left running by a timeout at one time (PagesSpec)
MaxOrphans == 2

\* ------------------------------------------------------ program constants
MAX_RETRIES == 5
\* number of workers started per step (for w := 0; w < 3; w++)
NumWorkers == 3
\* timeout of a new job, minutes (time.Minute * 4)
InitialTimeout == 4
\* minutes added by each retry (2 * time.Minute)
RetryIncrement == 2
\* timeout DefaultDownloader configures, minutes (WithTimeout(3*time.Minute))
DefaultTimeout == 3

\* ------------------------------------------------------------- file types
MP3_VO == <<"m","p","3","-","v","0">>
MP3_320 == <<"m","p","3","-","3","2","0">>
FLAC == <<"f","l","a","c">>
AAC_HI == <<"a","a","c","-","h","i">>
VORBIS == <<"v","o","r","b","i","s">>
ALAC == <<"a","l","a","c">>
WAV == <<"w","a","v","e">>
AIFF_LOSSLESS == <<"a","i","f","f","-","l","o","s","s","l","e","s","s">>

AllFileTypes == {MP3_320, MP3_VO, FLAC, AAC_HI, VORBIS, ALAC, WAV, AIFF_LOSSLESS}

\* the file types a run of the model is configured with (d.filetype)
RunFileTypes == {FLAC}

\* album titles the page driver can list
Titles == {<<"a">>, <<"b">>, <<"e">>}

\* ------------------------------------------------------------ history.go
\* the line feed that ends a line, and the carriage return the scanner drops
\* from the end of a line
LF == 10
CR == 13

\* a digest input that leaves the file type out
DigestInput_TitleOnly(title, ft) == title

\* what md5Download writes to the digest: the title, then the file type's string
DigestInput(title, ft) == title \o ft

\* MD5 of the strings the model digests (titles with and without a file
\* type), as the 16 bytes of h.Sum(nil)
MD5(input) ==
  CASE input = <<"a">> \o FLAC ->
         <<74, 26, 219, 16, 138, 227, 70, 160, 111, 247, 155, 136, 194, 61, 245, 42>>
    [] input = <<"a">> \o MP3_320 ->
         <<69, 184, 211, 59, 230, 190, 72, 246, 75, 202, 197, 249, 207, 48, 237, 138>>
    [] input = <<"b">> \o FLAC ->
         <<144, 100, 190, 227, 182, 81, 121, 71, 149, 102, 138, 240, 89, 29, 190, 73>>
    [] input = <<"b">> \o MP3_320 ->
         <<129, 196, 4, 137, 222, 210, 45, 58, 73, 181, 1, 236, 37, 72, 200, 54>>
    [] input = <<"e">> \o FLAC ->
         <<143, 238, 174, 71, 157, 255, 2, 200, 233, 237, 10, 223, 190, 231, 120, 245>>
    [] input = <<"e">> \o MP3_320 ->
         <<125, 109, 175, 176, 235, 57, 127, 25, 236, 6, 42, 202, 121, 196, 148, 7>>
    [] input = <<"a">> ->
         <<12, 193, 117, 185, 192, 241, 182, 168, 49, 195, 153, 226, 105, 119, 38, 97>>
    [] input = <<"b">> ->
         <<146, 235, 95, 254, 230, 174, 47, 236, 58, 215, 28, 119, 117, 49, 87, 143>>
    [] input = <<"e">> ->
         <<225, 103, 23, 151, 197, 46, 21, 247, 99, 56, 11, 69, 232, 65, 236, 50>>

\* the fingerprint: the raw bytes of the digest, as a string
md5Download(title, ft) == MD5(DigestInput(title, ft))

containsDownload(items, title, ft) == md5Download(title, ft) \in items

\* a record that keeps only the newest fingerprint
addItem_Replace(items, title, ft) == {md5Download(title, ft)}

addItem(items, title, ft) == items \cup {md5Download(title, ft)}

\* position of the first line feed of s, 0 when it has none
FirstLF(s) ==
  IF \E n \in 1..Len(s) : s[n] = LF
    THEN CHOOSE n \in 1..Len(s) : s[n] = LF /\ \A m \in 1..(n - 1) : s[m] # LF
    ELSE 0

DropCR(l) == IF Len(l) > 0 /\ l[Len(l)] = CR THEN SubSeq(l, 1, Len(l) - 1) ELSE l

\* the lines bufio.Scanner finds in the bytes s: split at each line feed, a
\* carriage return before it dropped, a last line without line feed kept
RECURSIVE ScanLines(_)
ScanLines(s) ==
  IF s = <<>> THEN <<>>
  ELSE IF FirstLF(s) = 0 THEN <<DropCR(s)>>
  ELSE <<DropCR(SubSeq(s, 1, FirstLF(s) - 1))>> \o ScanLines(SubSeq(s, FirstLF(s) + 1, Len(s)))

\* the lines a reader finds in what writeOut writes for one key (key, then "\n")
KeyLines(key) == ScanLines(key \o <<LF>>)

LineBag(lines) ==
  [l \in {lines[n] : n \in 1..Len(lines)} |-> Cardinality({n \in 1..Len(lines) : lines[n] = l})]

\* the lines of the keys written, whatever the order of the map's iteration
RECURSIVE LinesWritten(_)
LinesWritten(keys) ==
  IF keys = {} THEN EmptyBag
  ELSE LET k == CHOOSE x \in keys : TRUE IN LineBag(KeyLines(k)) (+) LinesWritten(keys \ {k})

\* the lines of the backing file, as the set the scanner loads into the map
readHistory(file) == BagToSet(file)

\* a flush that writes nothing
writeOut_Nothing(items, file) == file

\* a flush that replaces the contents of the backing file
writeOut_Rewrite(items, file) == LinesWritten(items)

\* every key of the map and a line feed, appended to the backing file (O_APPEND)
writeOut(items, file) == file (+) LinesWritten(items)

\* contents the backing file can have when a run starts: album a was downloaded
\* in another format, album b in the format of this run
StartFiles == {writeOut({md5Download(<<"a">>, MP3_320), md5Download(<<"b">>, FLAC)}, EmptyBag)}

\* d.timeout: set by WithTimeout; main builds its Downloader with
\* DefaultDownloader and sets nothing but the file type afterwards
dTimeout == DefaultTimeout

\* ----------------------------------------------------------- downloadJob
nil == "nil"
ErrTimedOut == "Timed out after minutes"
ErrMaxRetries == "Reached maximum allowed retries"

\* the errors processJob can return
ProcessJobErrs == {"Could not create page", "Could not goto", "Could not select file type", "Could not download file"}

NoJob == [id |-> 0]

\* the job Download enqueues for the k-th entry of notDownloaded
NewJob(k, title, ft) ==
  [id |-> k, Entry |-> title, err |-> nil, Success |-> FALSE, DownloadDir |-> "outDir",
   filetype |-> ft, timeout |-> InitialTimeout, retries |-> 0]

failed(j, err) == [j EXCEPT !.Success = FALSE, !.err = err]

\* succeeded leaving the error of an earlier timeout in place
succeeded_KeepsErr(j) == [j EXCEPT !.Success = TRUE]

succeeded(j) == [j EXCEPT !.Success = TRUE, !.err = nil]

\* timedOut with the bound tested one retry too late
timedOut_OffByOne(j) ==
  IF j.retries > MAX_RETRIES
    THEN [err |-> ErrMaxRetries, job |-> j]
    ELSE [err |-> nil,
          job |-> [j EXCEPT !.Success = FALSE, !.err = ErrTimedOut,
                            !.retries = j.retries + 1,
                            !.timeout = j.timeout + RetryIncrement]]

\* timedOut with an exponential backoff
timedOut_Exponential(j) ==
  IF j.retries = MAX_RETRIES
    THEN [err |-> ErrMaxRetries, job |-> j]
    ELSE [err |-> nil,
          job |-> [j EXCEPT !.Success = FALSE, !.err = ErrTimedOut,
                            !.retries = j.retries + 1,
                            !.timeout = j.timeout * 2]]

\* timedOut: the returned error and the job as the call leaves it
timedOut(j) ==
  IF j.retries = MAX_RETRIES
    THEN [err |-> ErrMaxRetries, job |-> j]
    ELSE [err |-> nil,
          job |-> [j EXCEPT !.Success = FALSE, !.err = ErrTimedOut,
                            !.retries = j.retries + 1,
                            !.timeout = j.timeout + RetryIncrement]]

\* ------------------------------------------------------------------ state
VARIABLES
  pc,            \* position of Download
  retErr,        \* Download's return value once pc = "done"
  dFiletype,     \* d.filetype
  file,          \* backing file of the history: bag of lines
  items,         \* history.items
  scrollTimes,   \* result of page.ScrollTimes()
  i,             \* loop variable of the pagination loop
  entries,       \* the list page.Entries returned for the step
  notDownloaded, \* the step's batch of entries
  sent,          \* entries of notDownloaded enqueued so far
  drained,       \* results received so far in the step
  jobs,          \* jobs channel (buffered, capacity Len(notDownloaded))
  results,       \* results channel (buffered, capacity Len(notDownloaded))
  closed,        \* the step's channels have been closed
  worker,        \* the step's worker goroutines and their attempt goroutines
  scrolled,      \* calls of page.ScrollPage so far
  \* history variables (observations, not program state)
  startup,       \* items as loaded by NewHistory
  itemsAtBuild,  \* items when the step's batch was built
  okAtBuild,     \* okTitles when the step's batch was built
  enq,           \* titles of the jobs Download has sent on jobs in the step
  okTitles,      \* titles of the jobs drained with Success = TRUE in the run
  reported,      \* per job id: messages sent on results
  attempts,      \* per job id not yet drained: times a worker took it off the queue
  cbStart,       \* per title: OnStart calls in the current step
  cbSuccess,     \* per title: OnSuccess calls in the current step
  cbFailure,     \* per title: OnFailure calls in the current step
  obs,           \* observations over whole runs, each kept by the specification
                 \* that starts with it switched on: the run's number and how the
                 \* run before ended, the listing call that failed, the
                 \* notifications per title
  fp,            \* two digest inputs being computed (specification FpSpec)
  pages          \* entry pages of the attempts, running and timed out
                 \* (specification PagesSpec)

vars == <<pc, retErr, dFiletype, file, items, scrollTimes, i, entries, notDownloaded,
          sent, drained, jobs, results, closed, worker, scrolled, startup, itemsAtBuild,
          okAtBuild, enq, okTitles, reported, attempts, cbStart, cbSuccess, cbFailure,
          obs, fp, pages>>

\* everything but fp
downloadVars == <<pc, retErr, dFiletype, file, items, scrollTimes, i, entries, notDownloaded,
                  sent, drained, jobs, results, closed, worker, scrolled, startup,
                  itemsAtBuild, okAtBuild, enq, okTitles, reported, attempts, cbStart,
                  cbSuccess, cbFailure, obs, pages>>

\* what only Download changes, the map of the history apart
downloadLocals == <<pc, retErr, dFiletype, file, scrollTimes, i, entries, notDownloaded,
                    sent, drained, closed, scrolled, startup, itemsAtBuild, okAtBuild, enq,
                    okTitles, cbStart, cbSuccess, cbFailure, obs, fp>>

\* what only Download changes
orchVars == <<downloadLocals, items>>

\* what a step of the loop leaves alone unless it says otherwise
runVars == <<dFiletype, scrollTimes, startup, fp, pages>>

stepVars == <<entries, notDownloaded, itemsAtBuild, okAtBuild>>

chanVars == <<jobs, results, closed, worker, reported, attempts>>

cbVars == <<cbStart, cbSuccess, cbFailure>>

Workers == 1..NumWorkers

\* a worker blocked in "for job := range jobs"
IdleWorker == [pc |-> "range", job |-> NoJob, att |-> "none", jobErr |-> <<>>, ctx |-> "none"]

ZeroCount == [t \in Titles |-> 0]

\* the batch without the history filter
NotDownloaded_NoFilter(es, its, ft) == es

\* entries whose fingerprint is not in the history, in the driver's order
NotDownloaded(es, its, ft) ==
  SelectSeq(es, LAMBDA e : ~containsDownload(its, e, ft))

\* lists of entries page.Entries can return
EntryLists == UNION {[1..n -> Titles] : n \in 0..MaxEntries}

\* errors that end Download before the pagination loop
SetupErrs == {"Could not create output dir", "Failure to get history file",
              "Could not install playwright", "could not start playwright",
              "could not launch browser", "could not create context",
              "could not create page", "could not goto"}

ErrEntries == "Could not get your collection"

\* the calls whose error Download assigns before the loop and never reads
ListingCalls == {"filter", "AlbumCount", "ScrollTimes"}

\* observations: none kept; the runs of the program; the listing call that
\* failed; the notifications per album of a run
NoObs == [runs |-> FALSE, listing |-> FALSE, notify |-> FALSE]

RunsObs == [runs |-> TRUE, listing |-> FALSE, notify |-> FALSE, run |-> 1, prev |-> <<>>]

ListingObs == [runs |-> FALSE, listing |-> TRUE, notify |-> FALSE, listErr |-> nil]

NotifyObs ==
  [runs |-> FALSE, listing |-> FALSE, notify |-> TRUE, starts |-> ZeroCount,
   terminals |-> ZeroCount]

ObsListing(o, call) == IF o.listing THEN [o EXCEPT !.listErr = call] ELSE o

ObsStart(o, title) == IF o.notify THEN [o EXCEPT !.starts[title] = @ + 1] ELSE o

ObsTerminal(o, title) == IF o.notify THEN [o EXCEPT !.terminals[title] = @ + 1] ELSE o

\* ------------------------------------------------- processJob's entry page
\* An attempt is processJob running in its goroutine.  It is "creating" until
\* NewCollectionEntryPage returns and "open" from then until processJob
\* returns.  processJob is not given jobCtx: when the worker takes the
\* case <-jobCtx.Done() the attempt goes on without a worker waiting for it.
NoPages == [on |-> FALSE]

NoOrphans == [creating |-> 0, open |-> 0]

StartPages == [on |-> TRUE, page |-> [w \in Workers |-> "none"], orphans |-> NoOrphans,
               open |-> 0]

\* go func() { jobErr <- processJob(job, browserCtx) ... }: the attempt starts
PagesStart(p, w) ==
  IF p.on THEN [p EXCEPT !.page[w] = "creating"] ELSE p

\* what processJob can return from where it is
ReturnsFrom(pos) ==
  IF pos = "creating"
    THEN {"Could not create page"}
    ELSE (ProcessJobErrs \ {"Could not create page"}) \cup {nil}

CanReturn(p, w, e) == p.on => e \in ReturnsFrom(p.page[w])

\* a processJob that closes its page only when it returns nil
ClosesOnReturn_OnlyOnSuccess(pos, e) == IF pos = "open" /\ e = nil THEN 1 ELSE 0

\* calls of page.Close when processJob returns e: the deferred call, which
\* is registered once the page exists
ClosesOnReturn(pos, e) == IF pos = "open" THEN 1 ELSE 0

\* processJob returns e to the attempt goroutine of worker w
PagesReturn(p, w, e) ==
  IF p.on
    THEN [p EXCEPT !.page[w] = "none", !.open = @ - ClosesOnReturn(p.page[w], e)]
    ELSE p

\* the worker takes case <-jobCtx.Done() while processJob is running
PagesOrphan(p, w) ==
  IF p.on
    THEN [p EXCEPT !.page[w] = "none", !.orphans[p.page[w]] = @ + 1]
    ELSE p

\* bound on the attempts running without a worker
OrphanRoom(p) == p.on => p.orphans.creating + p.orphans.open < MaxOrphans

NoFp == [on |-> FALSE]

\* errors of browser.Close and pw.Stop after the loop
ShutdownErrs == {"could not close browser", "could not stop Playwright"}

\* the state in which Download is called
StartOfRun ==
  /\ pc = "setup"
  /\ retErr = nil
  /\ dFiletype \in RunFileTypes
  /\ file \in StartFiles
  /\ items = {}
  /\ scrollTimes = 0
  /\ i = 0
  /\ entries = <<>>
  /\ notDownloaded = <<>>
  /\ sent = 0
  /\ drained = 0
  /\ jobs = <<>>
  /\ results = <<>>
  /\ closed = FALSE
  /\ worker = [w \in Workers |-> [IdleWorker EXCEPT !.pc = "exited"]]
  /\ scrolled = 0
  /\ startup = {}
  /\ itemsAtBuild = {}
  /\ okAtBuild = {}
  /\ enq = <<>>
  /\ okTitles = {}
  /\ reported = <<>>
  /\ attempts = <<>>
  /\ cbStart = ZeroCount
  /\ cbSuccess = ZeroCount
  /\ cbFailure = ZeroCount

Init ==
  /\ StartOfRun
  /\ obs = NoObs
  /\ fp = NoFp
  /\ pages = NoPages

\* ------------------------------------------------------- Download: set-up
\* directories, NewHistory, playwright, browser context, collection page,
\* filter, AlbumCount and ScrollTimes
\* a set-up that goes on after an error
AfterSetup_GoesOn(e) == "loop"

\* where Download is after the set-up ended with e: each error is returned
AfterSetup(e) == IF e # nil THEN "done" ELSE "loop"

\* The errors of page.filter, AlbumCount and ScrollTimes are assigned to err
\* and never tested: whichever of them fails, Download goes on to the loop.
Setup ==
  /\ pc = "setup"
  /\ \E e \in SetupErrs \cup {nil} :
       /\ retErr' = e
       /\ pc' = AfterSetup(e)
       /\ IF e = nil
            THEN /\ items' = readHistory(file)
                 /\ startup' = readHistory(file)
                 /\ \E n \in 0..MaxScroll : scrollTimes' = n
                 /\ \E call \in ListingCalls \cup {nil} : obs' = ObsListing(obs, call)
            ELSE UNCHANGED <<items, startup, scrollTimes, obs>>
  /\ UNCHANGED <<dFiletype, file, i, sent, drained, scrolled, enq, okTitles, stepVars,
                 chanVars, cbVars, fp, pages>>

\* ------------------------------------------------ Download: one loop step
\* page.Entries fails: Download returns the error
EntriesFail ==
  /\ pc = "loop"
  /\ i < scrollTimes
  /\ pc' = "done"
  /\ retErr' = ErrEntries
  /\ UNCHANGED <<file, items, i, sent, drained, scrolled, enq, okTitles, runVars,
                 stepVars, chanVars, cbVars, obs>>

\* page.Entries succeeds: filter by history, make the channels, start the workers
BuildBatch ==
  /\ pc = "loop"
  /\ i < scrollTimes
  /\ \E es \in EntryLists :
       /\ entries' = es
       /\ notDownloaded' = NotDownloaded(es, items, dFiletype)
       /\ reported' = [k \in 1..Len(notDownloaded') |-> 0]
       /\ attempts' = [k \in 1..Len(notDownloaded') |-> 0]
  /\ jobs' = <<>>
  /\ results' = <<>>
  /\ closed' = FALSE
  /\ worker' = [w \in Workers |-> IdleWorker] \* the earlier step's are not followed further
  /\ sent' = 0
  /\ drained' = 0
  /\ itemsAtBuild' = items
  /\ okAtBuild' = okTitles
  /\ enq' = <<>>
  /\ cbStart' = ZeroCount
  /\ cbSuccess' = ZeroCount
  /\ cbFailure' = ZeroCount
  /\ pc' = "enqueue"
  /\ UNCHANGED <<retErr, file, items, i, scrolled, okTitles, runVars, obs>>

\* one turn of "for _, entry := range notDownloaded": OnStart, then the send;
\* after the last send (or with nothing to send) on to the drain loop
Enqueue ==
  /\ pc = "enqueue"
  /\ IF sent < Len(notDownloaded)
       THEN /\ Len(jobs) < Len(notDownloaded)
            /\ cbStart' = [cbStart EXCEPT ![notDownloaded[sent + 1]] = @ + 1]
            /\ obs' = ObsStart(obs, notDownloaded[sent + 1])
            /\ LET job == NewJob(sent + 1, notDownloaded[sent + 1], dFiletype) IN
                 /\ jobs' = Append(jobs, job)
                 /\ enq' = Append(enq, job.Entry)
            /\ sent' = sent + 1
            /\ pc' = IF sent + 1 < Len(notDownloaded) THEN "enqueue" ELSE "drain"
       ELSE /\ pc' = "drain"
            /\ UNCHANGED <<cbStart, jobs, sent, enq, obs>>
  /\ UNCHANGED <<retErr, file, items, i, drained, scrolled, okTitles, results, closed,
                 worker, reported, attempts, cbSuccess, cbFailure, runVars, stepVars>>

\* a drain loop that stops one result early
DrainCount_OneShort(nd) == IF Len(nd) > 0 THEN Len(nd) - 1 ELSE 0

\* number of results the drain loop receives ("for range notDownloaded")
DrainCount(nd) == Len(nd)

\* a drain loop that records every job it receives
DrainItems_Always(its, job, ft) == addItem(its, job.Entry, ft)

\* a drain loop that records nothing
DrainItems_Never(its, job, ft) == its

\* the history after a drained job
DrainItems(its, job, ft) == IF job.Success THEN addItem(its, job.Entry, ft) ELSE its

\* a drain loop that returns a failed job's error
DrainReturn_JobErr(job) == IF job.Success THEN nil ELSE job.err

\* the error Download returns because of a drained job: none
DrainReturn(job) == nil

\* one turn of the drain loop: receive, record or log, call the callback;
\* after the last receive (or with nothing to receive) on to the close
Drain ==
  /\ pc = "drain"
  /\ IF drained < DrainCount(notDownloaded)
       THEN /\ results # <<>>
            /\ LET job == Head(results) IN
                 /\ results' = Tail(results)
                 /\ items' = DrainItems(items, job, dFiletype)
                 /\ okTitles' = IF job.Success THEN okTitles \cup {job.Entry} ELSE okTitles
                 /\ IF job.Success
                      THEN /\ cbSuccess' = [cbSuccess EXCEPT ![job.Entry] = @ + 1]
                           /\ UNCHANGED cbFailure
                      ELSE /\ cbFailure' = [cbFailure EXCEPT ![job.Entry] = @ + 1]
                           /\ UNCHANGED cbSuccess
                 /\ retErr' = DrainReturn(job)
                 /\ pc' = IF DrainReturn(job) # nil THEN "done"
                          ELSE IF drained + 1 < DrainCount(notDownloaded) THEN "drain"
                          ELSE "close"
                 /\ attempts' = [attempts EXCEPT ![job.id] = 0]
                 /\ obs' = ObsTerminal(obs, job.Entry)
            /\ drained' = drained + 1
       ELSE /\ pc' = "close"
            /\ UNCHANGED <<results, items, okTitles, cbSuccess, cbFailure, retErr, drained,
                           attempts, obs>>
  /\ UNCHANGED <<file, i, sent, scrolled, enq, jobs, closed, worker, reported, cbStart,
                 runVars, stepVars>>

\* close(jobs); close(results)
CloseChannels ==
  /\ pc = "close"
  /\ closed' = TRUE
  /\ pc' = "flush"
  /\ UNCHANGED <<retErr, file, items, i, sent, drained, scrolled, enq, okTitles, jobs,
                 results, worker, reported, attempts, runVars, stepVars, cbVars, obs>>

\* history.writeOut() at the end of the step
Flush ==
  /\ pc = "flush"
  /\ file' = writeOut(items, file)
  /\ pc' = "scroll"
  /\ UNCHANGED <<retErr, items, i, sent, drained, scrolled, enq, okTitles, runVars,
                 stepVars, chanVars, cbVars, obs>>

\* page.ScrollPage() and the loop's increment
ScrollPage ==
  /\ pc = "scroll"
  /\ scrolled' = scrolled + 1
  /\ i' = i + 1
  /\ pc' = "loop"
  /\ UNCHANGED <<retErr, file, items, sent, drained, enq, okTitles, runVars, stepVars,
                 chanVars, cbVars, obs>>

\* after the loop: writeOut, browser.Close, pw.Stop, return
Finish ==
  /\ pc = "loop"
  /\ i >= scrollTimes
  /\ file' = writeOut(items, file)
  /\ \E e \in {nil} \cup ShutdownErrs : retErr' = e
  /\ pc' = "done"
  /\ UNCHANGED <<items, i, sent, drained, scrolled, enq, okTitles, runVars, stepVars,
                 chanVars, cbVars, obs>>

\* the process is killed inside a writeOut, of the step or of the end of the
\* run, after some of the lines reached the file: the keys of part of the map
\* (the map is iterated in no fixed order) and the first lines of one more key
WriteOutCrash ==
  /\ pc = "flush" \/ (pc = "loop" /\ i >= scrollTimes)
  /\ \E done \in SUBSET items :
       \/ file' = writeOut(done, file)
       \/ \E k \in items \ done :
            \E n \in 1..(Len(KeyLines(k)) - 1) :
              file' = writeOut(done, file) (+) LineBag(SubSeq(KeyLines(k), 1, n))
  /\ pc' = "crashed"
  /\ UNCHANGED <<retErr, items, i, sent, drained, scrolled, enq, okTitles, runVars, stepVars,
                 chanVars, cbVars, obs>>

\* ----------------------------------------------------------------- worker
\* for job := range jobs: take a job, start its attempt goroutine and timer.
\* The workers are interchangeable (id is never used), so the model lets the
\* lowest-numbered waiting worker be the one that receives.
WorkerTake(w) ==
  /\ worker[w].pc = "range"
  /\ \A v \in Workers : v < w => worker[v].pc # "range"
  /\ jobs # <<>>
  /\ worker' = [worker EXCEPT ![w] = [pc |-> "select", job |-> Head(jobs), att |-> "running",
                                      jobErr |-> <<>>, ctx |-> "live"]]
  /\ jobs' = Tail(jobs)
  /\ attempts' = [attempts EXCEPT ![Head(jobs).id] = @ + 1]
  /\ pages' = PagesStart(pages, w)
  /\ UNCHANGED <<orchVars, results, closed, reported>>

\* range over a closed, empty channel ends: the worker returns
WorkerExit(w) ==
  /\ worker[w].pc = "range"
  /\ jobs = <<>>
  /\ closed
  /\ worker' = [worker EXCEPT ![w].pc = "exited"]
  /\ UNCHANGED <<orchVars, jobs, results, closed, reported, attempts, pages>>

\* attempt goroutine: processJob returns and its result is sent on jobErr,
\* while the worker has not reached its select yet
AttemptSend(w) ==
  /\ worker[w].pc = "select"
  /\ worker[w].att = "running"
  /\ \E e \in ProcessJobErrs \cup {nil} :
       /\ CanReturn(pages, w, e)
       /\ worker' = [worker EXCEPT ![w].att = "sent", ![w].jobErr = <<e>>]
       /\ pages' = PagesReturn(pages, w, e)
  /\ UNCHANGED <<orchVars, jobs, results, closed, reported, attempts>>

\* attempt goroutine: cancel() after the send
AttemptCancel(w) ==
  /\ worker[w].att = "sent"
  /\ worker' = [worker EXCEPT ![w].att = "end",
                              ![w].ctx = IF @ = "live" THEN "canceled" ELSE @]
  /\ UNCHANGED <<orchVars, jobs, results, closed, reported, attempts, pages>>

\* the attempt's deadline passes before cancel() was called, while the worker
\* has not reached its select yet
DeadlineFires(w) ==
  /\ worker[w].pc = "select"
  /\ worker[w].ctx = "live"
  /\ worker' = [worker EXCEPT ![w].ctx = "deadline"]
  /\ UNCHANGED <<orchVars, jobs, results, closed, reported, attempts, pages>>

\* a timeout branch that also reports the job it requeues
DoneBranch_ReportsRetry(job) ==
  LET r == timedOut(job) IN
    IF r.err # nil
      THEN [toResults |-> <<failed(r.job, r.err)>>, toJobs |-> <<>>]
      ELSE [toResults |-> <<r.job>>, toJobs |-> <<r.job>>]

\* a timeout branch that requeues nothing
DoneBranch_DropsRetry(job) ==
  LET r == timedOut(job) IN
    IF r.err # nil
      THEN [toResults |-> <<failed(r.job, r.err)>>, toJobs |-> <<>>]
      ELSE [toResults |-> <<>>, toJobs |-> <<>>]

\* what a branch of the select sends: on results, and back on jobs
DoneBranch(job) ==
  LET r == timedOut(job) IN
    IF r.err # nil
      THEN [toResults |-> <<failed(r.job, r.err)>>, toJobs |-> <<>>]
      ELSE [toResults |-> <<>>, toJobs |-> <<r.job>>]

JobErrBranch(job, err) ==
  IF err # nil
    THEN [toResults |-> <<failed(job, err)>>, toJobs |-> <<>>]
    ELSE [toResults |-> <<succeeded(job)>>, toJobs |-> <<>>]

\* a worker that records its successes in the history itself
WorkerHistory_Records(its, b) ==
  IF b.toResults # <<>> /\ Head(b.toResults).Success
    THEN addItem(its, Head(b.toResults).Entry, Head(b.toResults).filetype)
    ELSE its

\* the history after a branch of the select: worker is given the two channels
\* and the browser context, not the history, and its branches only send
WorkerHistory(its, b) == its

\* a requeue that puts the job ahead of the jobs waiting
Requeue_Front(q, js) == js \o q

\* jobs <- job in the timeout branch: the channel is a FIFO, the job goes to
\* its back
Requeue(q, js) == q \o js

\* the sends of a branch; a send blocks while the channel is full
Sends(w, b) ==
  /\ Len(results) + Len(b.toResults) <= Len(notDownloaded)
  /\ Len(jobs) + Len(b.toJobs) <= Len(notDownloaded)
  /\ results' = results \o b.toResults
  /\ jobs' = Requeue(jobs, b.toJobs)
  /\ reported' = [reported EXCEPT ![worker[w].job.id] = @ + Len(b.toResults)]
  /\ worker' = [worker EXCEPT ![w] = IdleWorker]
  /\ items' = WorkerHistory(items, b)
  /\ UNCHANGED <<downloadLocals, closed, attempts>>

\* The worker reaches its select.  A case that is ready is taken; when both
\* are ready either may be (select chooses at random among the ready cases).
\* select finds jobCtx.Done() closed: case <-jobCtx.Done()
SelectDone(w) ==
  /\ worker[w].pc = "select"
  /\ worker[w].ctx \in {"deadline", "canceled"}
  /\ Sends(w, DoneBranch(worker[w].job))
  /\ IF worker[w].att = "running"
       THEN OrphanRoom(pages) /\ pages' = PagesOrphan(pages, w)
       ELSE pages' = pages

\* select finds a value on jobErr: case err := <-jobErr
SelectJobErr(w) ==
  /\ worker[w].pc = "select"
  /\ worker[w].jobErr # <<>>
  /\ Sends(w, JobErrBranch(worker[w].job, Head(worker[w].jobErr)))
  /\ pages' = pages

\* select finds no case ready: the worker blocks in it
SelectBlock(w) ==
  /\ worker[w].pc = "select"
  /\ worker[w].ctx = "live"
  /\ worker[w].jobErr = <<>>
  /\ worker' = [worker EXCEPT ![w].pc = "parked"]
  /\ UNCHANGED <<orchVars, jobs, results, closed, reported, attempts, pages>>

\* A worker blocked in its select is woken by the first case that becomes
\* ready and runs that case, whatever becomes ready afterwards.
\* the deadline passes first: case <-jobCtx.Done()
WakeDone(w) ==
  /\ worker[w].pc = "parked"
  /\ Sends(w, DoneBranch(worker[w].job))
  /\ OrphanRoom(pages)
  /\ pages' = PagesOrphan(pages, w)

\* processJob returns first and its result is sent on jobErr: case err := <-jobErr
WakeJobErr(w) ==
  /\ worker[w].pc = "parked"
  /\ \E e \in ProcessJobErrs \cup {nil} :
       /\ CanReturn(pages, w, e)
       /\ Sends(w, JobErrBranch(worker[w].job, e))
       /\ pages' = PagesReturn(pages, w, e)

Next ==
  \/ Setup
  \/ EntriesFail
  \/ BuildBatch
  \/ Enqueue
  \/ Drain
  \/ CloseChannels
  \/ Flush
  \/ ScrollPage
  \/ Finish
  \/ WriteOutCrash
  \/ \E w \in Workers : WorkerTake(w)
  \/ \E w \in Workers : WorkerExit(w)
  \/ \E w \in Workers : AttemptSend(w)
  \/ \E w \in Workers : AttemptCancel(w)
  \/ \E w \in Workers : DeadlineFires(w)
  \/ \E w \in Workers : SelectDone(w)
  \/ \E w \in Workers : SelectJobErr(w)
  \/ \E w \in Workers : SelectBlock(w)
  \/ \E w \in Workers : WakeDone(w)
  \/ \E w \in Workers : WakeJobErr(w)

Spec == Init /\ [][Next]_vars

\* ------------------------------------------------- runs, one after another
\* The program is started again after Download returned nil: a new process,
\* the same backing file and file type.  How the run before ended is kept in
\* obs.prev.
Restart ==
  /\ pc = "done"
  /\ retErr = nil
  /\ obs.runs
  /\ obs.run = 1
  /\ obs' = [obs EXCEPT
               !.run = 2,
               !.prev = [scrollTimes |-> scrollTimes, entries |-> entries,
                         allOk |-> \A t \in Titles : cbFailure[t] = 0]]
  /\ pc' = "setup"
  /\ items' = {}
  /\ scrollTimes' = 0
  /\ i' = 0
  /\ entries' = <<>>
  /\ notDownloaded' = <<>>
  /\ sent' = 0
  /\ drained' = 0
  /\ jobs' = <<>>
  /\ results' = <<>>
  /\ closed' = FALSE
  /\ worker' = [w \in Workers |-> [IdleWorker EXCEPT !.pc = "exited"]]
  /\ scrolled' = 0
  /\ startup' = {}
  /\ itemsAtBuild' = {}
  /\ okAtBuild' = {}
  /\ enq' = <<>>
  /\ okTitles' = {}
  /\ reported' = <<>>
  /\ attempts' = <<>>
  /\ cbStart' = ZeroCount
  /\ cbSuccess' = ZeroCount
  /\ cbFailure' = ZeroCount
  /\ UNCHANGED <<retErr, dFiletype, file, fp, pages>>

\* Runs in which every worker is blocked in its select before processJob
\* returns and no deadline passes (each job is attempted once), followed
\* until the channels are closed.
SingleAttemptNext ==
  \/ Setup
  \/ EntriesFail
  \/ BuildBatch
  \/ Enqueue
  \/ Drain
  \/ CloseChannels
  \/ Flush
  \/ ScrollPage
  \/ Finish
  \/ \E w \in Workers : WorkerTake(w)
  \/ \E w \in Workers : SelectBlock(w)
  \/ \E w \in Workers : WakeJobErr(w)

RunsInit ==
  /\ StartOfRun
  /\ obs = RunsObs
  /\ fp = NoFp
  /\ pages = NoPages

RunsNext ==
  \/ SingleAttemptNext
  \/ Restart

\* two runs of the program, one after the other
RunsSpec == RunsInit /\ [][RunsNext]_vars

ListingInit ==
  /\ StartOfRun
  /\ obs = ListingObs
  /\ fp = NoFp
  /\ pages = NoPages

\* one run, with the failed listing call observed
ListingSpec == ListingInit /\ [][SingleAttemptNext]_vars

NotifyInit ==
  /\ StartOfRun
  /\ obs = NotifyObs
  /\ fp = NoFp
  /\ pages = NoPages

\* one run, with the notifications of the whole run observed
NotifySpec == NotifyInit /\ [][SingleAttemptNext]_vars

\* ------------------------------------------------ the digest input alone
\* characters of the titles: ones that end or begin file type strings
FpChars == {"a", "l", "f"}

FpTitles == UNION {[1..n -> FpChars] : n \in 0..MaxTitleLen}

\* two calls of md5Download, with any titles and file types
FpInit ==
  /\ StartOfRun
  /\ obs = NoObs
  /\ fp \in [on : {TRUE}, done : {FALSE}, title1 : FpTitles, ft1 : AllFileTypes,
              title2 : FpTitles, ft2 : AllFileTypes, input1 : {<<>>}, input2 : {<<>>}]
  /\ pages = NoPages

\* both calls write their title and file type to their digest
WriteDigestInputs ==
  /\ fp.on
  /\ ~fp.done
  /\ fp' = [fp EXCEPT !.input1 = DigestInput(fp.title1, fp.ft1),
                      !.input2 = DigestInput(fp.title2, fp.ft2),
                      !.done = TRUE]
  /\ UNCHANGED downloadVars

FpNext == WriteDigestInputs

FpSpec == FpInit /\ [][FpNext]_vars

\* ------------------------------------------------------ forward progress
\* The run in which every worker reaches its select before its attempt ends
\* or its deadline passes, and the history file is written without a crash.
\* Every goroutine that can take a step takes one in the end, and a worker
\* blocked in its select is woken: processJob returns or the deadline fires.
LiveNext ==
  \/ SingleAttemptNext
  \/ \E w \in Workers : WorkerExit(w)
  \/ \E w \in Workers : WakeDone(w)

LiveSpec == Init /\ [][LiveNext]_vars /\ WF_vars(LiveNext)

\* The run with the entry page of every attempt followed: of the attempt a
\* worker is waiting for, and of the attempts that go on after their deadline.
\* A worker reaches its select before anything else happens to its attempt
\* (SelectBlock, then WakeDone or WakeJobErr).
PagesInit ==
  /\ StartOfRun
  /\ obs = NoObs
  /\ fp = NoFp
  /\ pages = StartPages

\* browserCtx.NewCollectionEntryPage returns a page to the attempt of worker w
OpenPage(w) ==
  /\ pages.on
  /\ pages.page[w] = "creating"
  /\ pages' = [pages EXCEPT !.page[w] = "open", !.open = @ + 1]
  /\ UNCHANGED <<orchVars, chanVars>>

\* the same, in an attempt whose deadline has passed
OrphanOpenPage ==
  /\ pages.on
  /\ pages.orphans.creating > 0
  /\ pages' = [pages EXCEPT !.orphans.creating = @ - 1, !.orphans.open = @ + 1,
                            !.open = @ + 1]
  /\ UNCHANGED <<orchVars, chanVars>>

\* processJob returns in an attempt whose deadline has passed: the deferred
\* page.Close runs, the result goes to jobErr (capacity 1) and is never read
OrphanReturn ==
  /\ pages.on
  /\ \E pos \in {"creating", "open"} :
       /\ pages.orphans[pos] > 0
       /\ \E e \in ReturnsFrom(pos) :
            pages' = [pages EXCEPT !.orphans[pos] = @ - 1,
                                   !.open = @ - ClosesOnReturn(pos, e)]
  /\ UNCHANGED <<orchVars, chanVars>>

PagesNext ==
  \/ SingleAttemptNext
  \/ \E w \in Workers : WakeDone(w)
  \/ \E w \in Workers : OpenPage(w)
  \/ OrphanOpenPage
  \/ OrphanReturn

PagesSpec == PagesInit /\ [][PagesNext]_vars

\* The loop of Download on a collection of one listing page: the state Setup
\* leaves when every call of the set-up succeeds and ScrollTimes returns 1.
PagesStepInit ==
  /\ pc = "loop"
  /\ retErr = nil
  /\ dFiletype \in RunFileTypes
  /\ file \in StartFiles
  /\ items = readHistory(file)
  /\ startup = readHistory(file)
  /\ scrollTimes = 1
  /\ i = 0
  /\ entries = <<>>
  /\ notDownloaded = <<>>
  /\ sent = 0
  /\ drained = 0
  /\ jobs = <<>>
  /\ results = <<>>
  /\ closed = FALSE
  /\ worker = [w \in Workers |-> [IdleWorker EXCEPT !.pc = "exited"]]
  /\ scrolled = 0
  /\ itemsAtBuild = {}
  /\ okAtBuild = {}
  /\ enq = <<>>
  /\ okTitles = {}
  /\ reported = <<>>
  /\ attempts = <<>>
  /\ cbStart = ZeroCount
  /\ cbSuccess = ZeroCount
  /\ cbFailure = ZeroCount
  /\ obs = NoObs
  /\ fp = NoFp
  /\ pages = StartPages

PagesStepNext ==
  \/ EntriesFail
  \/ BuildBatch
  \/ Enqueue
  \/ Drain
  \/ CloseChannels
  \/ Flush
  \/ ScrollPage
  \/ Finish
  \/ \E w \in Workers : WorkerTake(w)
  \/ \E w \in Workers : SelectBlock(w)
  \/ \E w \in Workers : WakeDone(w)
  \/ \E w \in Workers : WakeJobErr(w)
  \/ \E w \in Workers : OpenPage(w)
  \/ OrphanOpenPage
  \/ OrphanReturn

\* every goroutine that can run does run in the end, and every driver call
\* returns
PagesFairSpec == PagesStepInit /\ [][PagesStepNext]_vars /\ WF_vars(PagesStepNext)

\* ================================================================ claims
Occ(seq, k) == Cardinality({n \in 1..Len(seq) : seq[n].id = k})

\* the worker holds a job: it is at or in its select
Holding(w) == worker[w].pc \in {"select", "parked"}

HeldCount(k) == Cardinality({w \in Workers : Holding(w) /\ worker[w].job.id = k})

QueuedJobs == {jobs[n] : n \in 1..Len(jobs)}

HeldJobs == {worker[w].job : w \in {v \in Workers : Holding(v)}}

ResultJobs == {results[n] : n \in 1..Len(results)}

AllJobs == QueuedJobs \cup HeldJobs \cup ResultJobs

Sum(f) == f[<<"a">>] + f[<<"b">>] + f[<<"e">>]

\* the step's drain loop is over
StepOver == pc \in {"close", "flush", "scroll"} \/ (pc = "loop" /\ i > 0)

\* C1: every job Download enqueues is, at any moment, either waiting in the
\* queue or held by one worker and not yet reported, or has been sent on the
\* results channel exactly once; a requeued job has sent nothing; when the
\* step's drain loop is over every job of the step has reported exactly once.
C1_OneResultPerJob ==
  \A k \in DOMAIN reported :
    /\ reported[k] <= 1
    /\ Occ(results, k) <= reported[k]
    /\ IF k <= sent
         THEN Occ(jobs, k) + HeldCount(k) + reported[k] = 1
         ELSE Occ(jobs, k) + HeldCount(k) + reported[k] = 0
    /\ StepOver => reported[k] = 1

\* a job that was retried and then succeeded is on the results channel, its
\* only report
C1_Witness ==
  /\ Len(notDownloaded) = 2
  /\ \E n \in 1..Len(results) :
       results[n].retries >= 1 /\ results[n].Success /\ reported[results[n].id] = 1

\* C2: when a worker reaches its select while processJob's non-nil error is
\* on jobErr and the deadline has not fired, it sends the job on results
\* failed with exactly that error (retries and timeout as they were) and
\* requeues nothing.
C2_ErrorNeverRequeued ==
  [][\A w \in Workers :
       (/\ worker[w].pc = "select"
        /\ worker[w].jobErr # <<>>
        /\ worker[w].ctx # "deadline"
        /\ worker'[w].pc = "range")
       => (Head(worker[w].jobErr) # nil
             => /\ results' = Append(results, failed(worker[w].job, Head(worker[w].jobErr)))
                /\ jobs' = jobs)]_vars

\* C3: when a worker reaches its select while processJob's nil result is on
\* jobErr and the deadline has not fired, it sends the job on results as a
\* success and requeues nothing.
C3_SuccessNeverTimeout ==
  [][\A w \in Workers :
       (/\ worker[w].pc = "select"
        /\ worker[w].jobErr = <<nil>>
        /\ worker[w].ctx # "deadline"
        /\ worker'[w].pc = "range")
       => (/\ results' = Append(results, succeeded(worker[w].job))
           /\ jobs' = jobs)]_vars

\* C4: every job, queued, running or reported, has 0 <= retries <=
\* MAX_RETRIES; every attempt before the current one timed out (a queued job
\* was taken retries times, a running or reported one retries + 1 times); a
\* job reported with the maximum-retries error has retries = MAX_RETRIES after
\* MAX_RETRIES + 1 attempts, and no job is reported with a timeout message.
C4_RetryBound ==
  /\ \A j \in AllJobs : j.retries \in 0..MAX_RETRIES
  /\ \A j \in QueuedJobs : attempts[j.id] = j.retries
  /\ \A j \in HeldJobs : attempts[j.id] = j.retries + 1
  /\ \A j \in ResultJobs :
       /\ attempts[j.id] = j.retries + 1
       /\ j.err # ErrTimedOut
       /\ j.err = ErrMaxRetries =>
            j.retries = MAX_RETRIES /\ attempts[j.id] = MAX_RETRIES + 1 /\ ~j.Success

\* a job is reported failed for exhausted retries
C4_Witness == \E j \in ResultJobs : j.err = ErrMaxRetries /\ j.retries = MAX_RETRIES

\* C5 as stated: no job is taken off the work queue more than MAX_RETRIES
\* (5) times.
C5_AtMostFiveAttempts == \A k \in DOMAIN attempts : attempts[k] <= MAX_RETRIES

\* C5 amended: no job is taken off the work queue more than MAX_RETRIES + 1
\* (6) times.
C5_AtMostSixAttempts == \A k \in DOMAIN attempts : attempts[k] <= MAX_RETRIES + 1

\* a job is in its sixth attempt
C5_Witness ==
  \E w \in Workers : Holding(w) /\ attempts[worker[w].job.id] = MAX_RETRIES + 1

C8_FailuresNeverAbort ==
  /\ retErr \in {nil} \cup SetupErrs \cup {ErrEntries} \cup ShutdownErrs
  /\ pc # "done" => retErr = nil
  /\ (pc = "done" /\ retErr \in {nil} \cup ShutdownErrs) =>
       i = scrollTimes /\ scrolled = scrollTimes
  /\ StepOver =>
       /\ \A k \in DOMAIN reported : reported[k] = 1
       /\ \A t \in Titles : cbStart[t] = cbSuccess[t] + cbFailure[t]

\* the first of two steps had a failed and a successful job, and Download is
\* at the top of the loop for the second step
C8_Witness ==
  /\ pc = "loop"
  /\ i = 1
  /\ scrollTimes = 2
  /\ retErr = nil
  /\ Sum(cbFailure) = 1
  /\ Sum(cbSuccess) = 1

\* C9: once the history is loaded, the in-memory set is the set loaded at
\* start-up plus the fingerprints of the jobs drained as successes; a job
\* drained as a failure adds nothing.
C9_OnlySuccessesRecorded ==
  pc # "setup" =>
    /\ items = startup \cup {md5Download(t, dFiletype) : t \in okTitles}
    /\ \A t \in Titles :
         (cbFailure[t] > 0 /\ t \notin okTitles) =>
            md5Download(t, dFiletype) \notin items \ startup

\* a step drained one success and one failure
C9_Witness ==
  /\ pc = "close"
  /\ cbSuccess[<<"a">>] = 1
  /\ cbFailure[<<"e">>] = 1
  /\ md5Download(<<"a">>, dFiletype) \in items
  /\ md5Download(<<"e">>, dFiletype) \notin items

\* the entries of the step whose fingerprint was absent when the batch was built
Absent == SelectSeq(entries, LAMBDA e : md5Download(e, dFiletype) \notin itemsAtBuild)

\* C10: the jobs Download enqueues in a step are, in order, one per listed
\* entry whose fingerprint was absent from the history when the batch was
\* built, and none for an entry whose fingerprint was present.
C10_OnlyNewEntriesEnqueued ==
  /\ \A n \in 1..Len(enq) : md5Download(enq[n], dFiletype) \notin itemsAtBuild
  /\ Len(enq) <= Len(Absent)
  /\ enq = SubSeq(Absent, 1, Len(enq))
  /\ pc \in {"drain", "close", "flush", "scroll"} => enq = Absent
  /\ \A j \in AllJobs : j.Entry = enq[j.id] /\ j.filetype = dFiletype

\* the driver listed a (downloaded in another format) and b (downloaded in
\* this format): only a was enqueued
C10_Witness ==
  /\ pc = "drain"
  /\ entries = << <<"a">>, <<"b">> >>
  /\ enq = << <<"a">> >>

\* C11 as stated: when a first run of one step returned nil with every job of
\* the step drained as a success, a second run of one step that lists the
\* same entries enqueues no job, so that no worker downloads anything.
C11_SecondRunEnqueuesNothing ==
  (/\ obs.runs
   /\ obs.run = 2
   /\ obs.prev.scrollTimes = 1
   /\ obs.prev.allOk
   /\ scrollTimes = 1
   /\ pc \in {"enqueue", "drain", "close", "flush", "scroll"}
   /\ entries = obs.prev.entries)
  => (notDownloaded = <<>> /\ enq = <<>> /\ jobs = <<>> /\ \A w \in Workers : ~Holding(w))

\* C12: no job enqueued in a step is for an entry whose job succeeded in an
\* earlier step of the run, also when the driver lists that entry again.
C12_SucceededNeverReEnqueued ==
  /\ \A n \in 1..Len(enq) : enq[n] \notin okAtBuild
  /\ \A j \in AllJobs : j.Entry \notin okAtBuild

\* the second step lists a, which succeeded in the first, and e: only e was
\* enqueued
C12_Witness ==
  /\ i = 1
  /\ pc = "drain"
  /\ <<"a">> \in okAtBuild
  /\ entries = << <<"a">>, <<"e">> >>
  /\ enq = << <<"e">> >>

\* the fingerprints of a set of titles in the run's file type
Fingerprints(titles) == {md5Download(t, dFiletype) : t \in titles}

\* C13 as stated: right after a step's flush, reloading the backing file gives
\* the fingerprints loaded at start-up plus exactly those of the jobs that
\* succeeded so far in the run; at any point of a later step, before its
\* flush, a reload still gives at least those of the steps before it.
C13_ReloadAfterFlush ==
  /\ pc = "scroll" => readHistory(file) = startup \cup Fingerprints(okTitles)
  /\ pc \in {"enqueue", "drain", "close", "flush"} =>
       startup \cup Fingerprints(okAtBuild) \subseteq readHistory(file)

\* C14: no step of the program, a complete flush or a flush cut short by a
\* crash after any of its lines included, removes a line from the backing
\* file: every line the file held is still there, as many times as before.
C14_FlushOnlyAppends == [][file \sqsubseteq file']_vars

\* a crash cut a flush inside the key of album e, after the first of the two
\* lines its bytes make
C14_Witness ==
  /\ pc = "crashed"
  /\ <<143, 238, 174, 71, 157, 255, 2, 200, 233, 237>> \in BagToSet(file)
  /\ <<223, 190, 231, 120, 245>> \notin BagToSet(file)
  /\ file # CHOOSE f \in StartFiles : TRUE

\* C15: two calls of md5Download feed the same string to the digest exactly
\* when they have the same title and the same file type: title followed by
\* file type is injective over all titles and the 8 file types.
C15_DigestInputInjective ==
  (fp.on /\ fp.done) =>
    ((fp.input1 = fp.input2) <=> (fp.title1 = fp.title2 /\ fp.ft1 = fp.ft2))

\* the same title in two file types of the same length that differ in one
\* letter: the digest inputs differ
C15_Witness ==
  /\ fp.on
  /\ fp.done
  /\ fp.title1 = <<"a", "l">>
  /\ fp.title2 = <<"a", "l">>
  /\ fp.ft1 = FLAC
  /\ fp.ft2 = ALAC
  /\ fp.input1 = <<"a", "l", "f", "l", "a", "c">>
  /\ fp.input2 = <<"a", "l", "a", "l", "a", "c">>

\* every line a flush of the map would write is in the backing file
Flushed == BagToSet(LinesWritten(items)) \subseteq BagToSet(file)

\* C16: when page.Entries fails Download returns its error at once, with no
\* job queued or held and every fingerprint of the map (those of the
\* successes of the steps before) already written to the backing file; from
\* then on nothing is enqueued, no callback is called and neither the map
\* nor the file changes.
C16_EntriesFailureAborts ==
  [][/\ (pc = "loop" /\ retErr' = ErrEntries) =>
          /\ pc' = "done"
          /\ jobs' = <<>> /\ results' = <<>> /\ \A w \in Workers : ~Holding(w)'
          /\ enq' = enq /\ cbStart' = cbStart /\ cbSuccess' = cbSuccess
          /\ cbFailure' = cbFailure
          /\ items' = startup \cup Fingerprints(okTitles)
          /\ Flushed'
     /\ retErr = ErrEntries =>
          /\ pc' = "done" /\ retErr' = retErr
          /\ jobs' = <<>> /\ results' = <<>>
          /\ enq' = enq /\ cbStart' = cbStart /\ cbSuccess' = cbSuccess
          /\ cbFailure' = cbFailure
          /\ items' = items /\ file' = file /\ scrolled' = scrolled]_vars

\* page.Entries failed in the second step, after album a succeeded in the first
C16_Witness ==
  /\ pc = "done"
  /\ retErr = ErrEntries
  /\ i = 1
  /\ okTitles = {<<"a">>}
  /\ md5Download(<<"a">>, dFiletype) \in readHistory(file)

\* C17 as stated: when page.filter, AlbumCount or ScrollTimes failed, no job
\* is ever enqueued and Download ends with an error.
C17_ListingErrorAborts ==
  (obs.listing /\ obs.listErr # nil) =>
    /\ enq = <<>>
    /\ \A t \in Titles : cbStart[t] = 0
    /\ pc = "done" => retErr # nil

\* C18: when a call of the set-up fails (a directory, the history file,
\* playwright, the browser context, the collection page) Download has
\* returned that error and no worker was started, no job enqueued, no
\* callback called, no step begun and the backing file not written.
C18_SetupErrorAborts ==
  retErr \in SetupErrs =>
    /\ pc = "done"
    /\ \A w \in Workers : worker[w] = [IdleWorker EXCEPT !.pc = "exited"]
    /\ enq = <<>> /\ jobs = <<>> /\ results = <<>>
    /\ \A t \in Titles : cbStart[t] = 0 /\ cbSuccess[t] = 0 /\ cbFailure[t] = 0
    /\ i = 0 /\ scrolled = 0 /\ entries = <<>>
    /\ file \in StartFiles

\* the history file could not be opened
C18_Witness ==
  /\ pc = "done"
  /\ retErr = "Failure to get history file"
  /\ items = {}

NoDup(seq) == \A m, n \in 1..Len(seq) : seq[m] = seq[n] => m = n

\* C19 as stated: in a step whose listing names every album once, an album
\* that gets a start notification has had none before in the run, and an
\* album that gets a success or failure notification has had none before.
C19_OneStartOneTerminal ==
  [][obs.notify =>
       \A t \in Titles :
         /\ (NoDup(entries) /\ obs.starts'[t] > obs.starts[t]) => obs.starts[t] = 0
         /\ (NoDup(entries) /\ obs.terminals'[t] > obs.terminals[t]) => obs.terminals[t] = 0]_vars

\* C20 as stated: every job in its first attempt (queued for it, running it
\* or reported from it) has the timeout configured on the Downloader as the
\* timeout of that attempt.
C20_FirstAttemptUsesConfigured ==
  \A j \in AllJobs : j.retries = 0 => j.timeout = dTimeout

\* worker w runs the timeout case of its select in this step: it was blocked
\* in the select and leaves it without a result, or it reaches the select
\* with the deadline passed and nothing on jobErr
TimeoutCase(w) ==
  /\ Holding(w)
  /\ worker'[w] = IdleWorker
  /\ \/ worker[w].pc = "parked" /\ results' = results
     \/ worker[w].pc = "select" /\ worker[w].ctx = "deadline" /\ worker[w].jobErr = <<>>

\* C21: when a worker handles the passing of an attempt's deadline and the
\* job has retries < MAX_RETRIES, it sends nothing on results and appends to
\* the same jobs queue the job with retries one higher, timeout two minutes
\* longer and id, entry, file type and download directory as they were.
C21_TimeoutTransition ==
  [][\A w \in Workers :
       (TimeoutCase(w) /\ worker[w].job.retries < MAX_RETRIES) =>
         /\ results' = results
         /\ Len(jobs') = Len(jobs) + 1
         /\ SubSeq(jobs', 1, Len(jobs)) = jobs
         /\ LET j == worker[w].job
                r == jobs'[Len(jobs')]
            IN /\ r.retries = j.retries + 1
               /\ r.timeout = j.timeout + 2
               /\ r.id = j.id
               /\ r.Entry = j.Entry
               /\ r.filetype = j.filetype
               /\ r.DownloadDir = j.DownloadDir
               /\ ~r.Success]_vars

\* a job is back in the queue after its first attempt timed out, nothing
\* reported
C21_Witness ==
  /\ results = <<>>
  /\ drained = 0
  /\ \E j \in QueuedJobs : j.retries = 1 /\ j.timeout = 6 /\ attempts[j.id] = 1

\* pages that exist: opened by an attempt that has not returned yet
OpenNow == Cardinality({w \in Workers : pages.page[w] = "open"}) + pages.orphans.open

\* attempts left running by a timeout
Orphans == pages.orphans.creating + pages.orphans.open

\* C22: once a worker has handled an attempt's timeout (requeued or failed the
\* job), nothing of that attempt is still running in the driver.
C22_TimeoutCancelsDriverCall ==
  pages.on => Orphans = 0

\* C23: no two attempts of the same job are in flight at once.  Stated for the
\* first step with a batch of one job, where every attempt is of that job: no
\* worker's attempt runs while an attempt left by a timeout still does.
C23_NoOverlappingAttempts ==
  (pages.on /\ i = 0 /\ Len(notDownloaded) = 1) =>
    ~(Orphans > 0 /\ \E w \in Workers : pages.page[w] # "none")

\* C24: at most 3 entry pages are open at once, counting those of attempts whose
\* deadline has fired.
C24_AtMostThreePagesOpen ==
  pages.on => OpenNow <= NumWorkers

\* C25: an attempt that opened a page closes it exactly once however processJob
\* returns, one whose page creation failed closes nothing (the pages opened and
\* not closed are exactly those of the attempts still between creation and
\* return), and every opened page is closed in the end, those of timed-out
\* attempts too.
C25_PageClosedOnEveryReturn ==
  /\ [](pages.open = OpenNow)
  /\ <>[](pages.open = 0)

\* a job has failed on navigation, its page closed, while the one page still
\* open is that of an attempt that timed out
C25_Witness ==
  /\ pages.on
  /\ pages.open = 1
  /\ pages.orphans.open = 1
  /\ \E k \in 1..Len(results) : results[k].err = "Could not goto"
\* capacity of the step's two channels
Capacity == Len(notDownloaded)

RECURSIVE ResultsSent(_)
\* messages sent on results for the jobs 1..n of the step
ResultsSent(n) == IF n = 0 THEN 0 ELSE reported[n] + ResultsSent(n - 1)

\* C26: in a step, jobs in the work queue + jobs held by workers + results sent
\* never exceed the batch size, the capacity of both channels; so Download's
\* next enqueue finds room in the queue, a worker holding a job finds room for
\* a requeue and for a result, and while Download waits for a result there is
\* one to receive, a job held by a worker, or a queued job and a worker free to
\* take it.
C26_QueuesNeverBlock ==
  /\ Len(jobs) + Cardinality({w \in Workers : Holding(w)}) + ResultsSent(Len(reported))
       <= Capacity
  /\ (pc = "enqueue" /\ sent < Capacity) => Len(jobs) < Capacity
  /\ \A w \in Workers : Holding(w) => Len(jobs) < Capacity /\ Len(results) < Capacity
  /\ (pc = "drain" /\ drained < Capacity) =>
       \/ results # <<>>
       \/ \E w \in Workers : Holding(w)
       \/ jobs # <<>> /\ \E w \in Workers : worker[w].pc = "range"

\* a timed-out job was requeued into the queue while the other job of the batch
\* was waiting in it: the queue is at its capacity
C26_Witness ==
  /\ Capacity = 2
  /\ pc = "drain"
  /\ Len(jobs) = 2
  /\ jobs[1].retries = 0
  /\ jobs[2].retries = 1
\* C27: once Download has closed the step's jobs and results channels nothing
\* is sent on either: no worker holds a job, the queue is empty so none will be
\* taken, every job of the step has reported, and the channels stay as they are.
C27_NoSendAfterClose ==
  /\ [](closed =>
          /\ \A w \in Workers : ~Holding(w)
          /\ jobs = <<>>
          /\ \A k \in DOMAIN reported : reported[k] = 1)
  /\ [][closed => (jobs' = jobs /\ results' = results)]_vars

\* the channels of a batch of two are closed, one of its jobs having failed
\* and one succeeded, and a worker has not left its range loop yet
C27_Witness ==
  /\ closed
  /\ Capacity = 2
  /\ Sum(cbFailure) = 1
  /\ Sum(cbSuccess) = 1
  /\ \E w \in Workers : worker[w].pc = "range"
C29_RoundTripEveryFingerprint ==
  pc = "scroll" =>
    \A t \in okTitles : containsDownload(readHistory(file), t, dFiletype)
\* C30: no step of a run removes a fingerprint from the in-memory set, and
\* building a batch, the one place where contains is called, once per listed
\* entry, leaves the set and the backing file as they were.
C30_FingerprintSetMonotone ==
  [][/\ items \subseteq items'
     /\ (pc = "loop" /\ pc' = "enqueue") => (items' = items /\ file' = file)]_vars

\* a success has been recorded on top of the fingerprints loaded at start-up,
\* after a batch was built by testing the listed entries against the set
C30_Witness ==
  /\ pc = "drain"
  /\ startup # {}
  /\ startup \subseteq items
  /\ items # startup
  /\ Len(entries) > Len(notDownloaded)
\* a step of Download: it moves its position or one of its two loop counters
DownloadStep == <<pc, sent, drained>>' # <<pc, sent, drained>>

\* C31: a step of a worker or of an attempt goroutine leaves the history (map
\* and backing file) and everything else Download keeps as it was; a step of
\* Download other than the one that builds the channels and starts the workers
\* leaves the workers as they were; so the two sides meet only in the jobs and
\* results channels.
C31_SingleWriter ==
  [][/\ ~DownloadStep =>
          /\ items' = items
          /\ file' = file
          /\ UNCHANGED <<retErr, dFiletype, scrollTimes, i, entries, notDownloaded, closed,
                         scrolled, startup, okTitles, cbStart, cbSuccess, cbFailure>>
     /\ (DownloadStep /\ ~(pc = "loop" /\ pc' = "enqueue")) => worker' = worker]_vars

\* a worker has just sent a success on results, after a retry, and the map
\* still holds what was loaded at start-up: the album is recorded only when
\* Download drains the result
C31_Witness ==
  /\ pc = "drain"
  /\ startup # {}
  /\ items = startup
  /\ \E n \in 1..Len(results) : results[n].Success /\ results[n].retries >= 1
\* C32: the flush of a step appends every key of the map once all the results
\* of the step have been received and recorded; ScrollPage is called only with
\* every key of the map already in the file; and Download returns nil only in
\* a step that, all scrollTimes steps done, appends every key once more.
C32_CheckpointOrdering ==
  [][/\ (pc = "flush" /\ pc' = "scroll") =>
          /\ file' = file (+) LinesWritten(items)
          /\ drained = Len(enq)
          /\ Len(enq) = Len(notDownloaded)
          /\ results = <<>>
          /\ Fingerprints(okTitles) \subseteq items
     /\ (scrolled' # scrolled) =>
          /\ pc = "scroll"
          /\ Flushed
          /\ file' = file
     /\ (pc # "done" /\ pc' = "done" /\ retErr' = nil) =>
          /\ i = scrollTimes
          /\ scrolled = scrollTimes
          /\ file' = file (+) LinesWritten(items)]_vars

\* Download has returned nil after two steps; album a, downloaded in the
\* first, was written by the flush of each step and by the final one
C32_Witness ==
  /\ pc = "done"
  /\ retErr = nil
  /\ scrolled = 2
  /\ <<"a">> \in okTitles
  /\ CopiesIn(KeyLines(md5Download(<<"a">>, dFiletype))[1], file) = 3
\* C33: in a step, every job enqueued has had its start callback and there is
\* one start callback per job enqueued; the terminal callbacks are one per
\* result received and, album by album, never more than the start callbacks,
\* so none is for a job that was not enqueued; when the step ends the start
\* callbacks, the jobs enqueued and the success plus failure callbacks are the
\* same number.
C33_CallbackAccounting ==
  /\ Sum(cbStart) = Len(enq)
  /\ Len(enq) = sent
  /\ \A n \in 1..Len(enq) : cbStart[enq[n]] >= 1
  /\ \A j \in AllJobs : cbStart[j.Entry] >= 1
  /\ Sum(cbSuccess) + Sum(cbFailure) = drained
  /\ \A t \in Titles : cbSuccess[t] + cbFailure[t] <= cbStart[t]
  /\ StepOver => Sum(cbStart) = Sum(cbSuccess) + Sum(cbFailure)

\* a step of two jobs is over with two start and two success callbacks
C33_Witness ==
  /\ pc = "close"
  /\ Sum(cbStart) = 2
  /\ Sum(cbSuccess) = 2
  /\ Sum(cbFailure) = 0
\* C34: a job on the results channel has Success = TRUE exactly when its err is
\* nil, a job that timed out before included; a failed one carries the error
\* processJob returned or, its retries used up, the maximum-retries error,
\* never the message of a timeout.
C34_TerminalStateConsistent ==
  \A n \in 1..Len(results) :
    LET j == results[n] IN
      /\ j.Success <=> j.err = nil
      /\ ~j.Success => j.err \in ProcessJobErrs \cup {ErrMaxRetries}
      /\ j.err = ErrMaxRetries => j.retries = MAX_RETRIES
      /\ j.err # ErrTimedOut

\* on the results channel: a job that succeeded after a timeout had set its
\* err, and a job failed for exhausted retries
C34_Witness ==
  /\ Len(results) = 2
  /\ \E n \in 1..2 : results[n].Success /\ results[n].err = nil /\ results[n].retries >= 1
  /\ \E n \in 1..2 : results[n].err = ErrMaxRetries
\* job k of the step has been taken for its first attempt
FirstTaken(k) == k <= sent /\ \A n \in 1..Len(jobs) : jobs[n].id = k => jobs[n].retries > 0

\* C35: the jobs of a step are enqueued in the order of the entries not yet
\* downloaded; the queue is a FIFO (a send, the requeue of a timed-out job
\* included, goes to the back, a receive takes the front); so a job is taken
\* for its first attempt only after every job of an entry listed before it.
C35_FirstAttemptsInOrder ==
  /\ [](/\ enq = SubSeq(notDownloaded, 1, sent)
        /\ \A k, m \in 1..Len(notDownloaded) : (k < m /\ FirstTaken(m)) => FirstTaken(k))
  /\ [][/\ Len(jobs') = Len(jobs) + 1 => SubSeq(jobs', 1, Len(jobs)) = jobs
        /\ Len(jobs') = Len(jobs) - 1 =>
             /\ jobs' = Tail(jobs)
             /\ \E w \in Workers : Holding(w)' /\ ~Holding(w) /\ worker'[w].job = Head(jobs)]_vars

\* the second job of the batch is at its first attempt while the first job,
\* timed out and requeued behind it, waits in the queue
C35_Witness ==
  /\ Len(notDownloaded) = 2
  /\ Len(jobs) = 1
  /\ jobs[1].id = 1
  /\ jobs[1].retries = 1
  /\ \E w \in Workers : Holding(w) /\ worker[w].job.id = 2 /\ worker[w].job.retries = 0
\* the set-up succeeded and ScrollTimes returned 0
ZeroSteps == pc # "setup" /\ scrollTimes = 0 /\ retErr \notin SetupErrs

\* nothing of a step has happened: no listing fetched, no worker started, no
\* job enqueued, no callback called, no scroll, nothing recorded
NoStepTaken ==
  /\ entries = <<>>
  /\ notDownloaded = <<>>
  /\ enq = <<>>
  /\ jobs = <<>>
  /\ results = <<>>
  /\ \A w \in Workers : worker[w].pc = "exited"
  /\ Sum(cbStart) + Sum(cbSuccess) + Sum(cbFailure) = 0
  /\ scrolled = 0
  /\ items = startup

\* the file holds what it held at the start plus one flush of the map
FlushedOnce == \E f \in StartFiles : file = f (+) LinesWritten(items)

\* C36 as stated: when the driver reports 0 steps the run fetches no entries,
\* enqueues no job, calls no callback, flushes the history once and returns
\* success.
C36_ZeroStepsReturnsSuccess ==
  ZeroSteps =>
    /\ NoStepTaken
    /\ pc = "done" => (FlushedOnce /\ retErr = nil)

\* C36: when the driver reports 0 steps the run fetches no entries, enqueues no
\* job, calls no callback and flushes the history once; it returns nil, or the
\* error of browser.Close or pw.Stop when one of them fails.
C36_ZeroStepsFlushAndReturn ==
  ZeroSteps =>
    /\ NoStepTaken
    /\ pc \in {"loop", "done", "crashed"}
    /\ pc = "loop" => file \in StartFiles
    /\ pc = "done" => (FlushedOnce /\ retErr \in {nil} \cup ShutdownErrs)

\* Download has returned nil with 0 steps, the fingerprints loaded at start-up
\* written once more to the file
C36_Witness ==
  /\ ZeroSteps
  /\ pc = "done"
  /\ retErr = nil
  /\ startup # {}
  /\ FlushedOnce
  /\ file \notin StartFiles
====
